---- MODULE Spec2Model ----
(***************************************************************************)
(* CV_Screener: the batch pipeline of backend/main.py, backend/cv_screener *)
(* .py and backend/api_client.py.                                          *)
(*                                                                         *)
(* The server is one asyncio event loop.  A coroutine runs without         *)
(* interruption until it awaits; the only awaits of a batch are the        *)
(* external chat-completion call and the backoff sleep.  `running` names   *)
(* the background task that holds the loop; request handlers and other     *)
(* batches step only while it is None.                                     *)
(***************************************************************************)
EXTENDS Integers, Sequences, FiniteSets, TLC

\* ---------------------------------------------------------------- bounds
MaxTasks   == 2      \* batches submitted over the life of the process
MaxEntries == 2      \* entries of one archive
MaxClock   == 1      \* distinct clock seconds that reports are generated in

\* -------------------------------------------------- program constants
max_retries == 3
retry_delay == 1

TaskIds == 1..MaxTasks
None    == <<>>

RECURSIVE Pow2(_)
Pow2(n) == IF n = 0 THEN 1 ELSE 2 * Pow2(n - 1)

\* ------------------------------------------------------- archive entries
\* An entry of a submitted archive: its directory inside the archive, its
\* file name, what libmagic sniffs from its bytes and whether PyMuPDF can
\* open and render those bytes.
PdfMime == "application/pdf"

Entries ==
  { [dir |-> "",    name |-> "a.pdf",     mime |-> PdfMime,      renders |-> TRUE ],
    [dir |-> "",    name |-> "a.pdf",     mime |-> "text/plain", renders |-> FALSE],
    [dir |-> "",    name |-> "b.PDF",     mime |-> PdfMime,      renders |-> TRUE ],
    [dir |-> "",    name |-> "c.pdf",     mime |-> PdfMime,      renders |-> FALSE],
    [dir |-> "sub", name |-> "d.pdf",     mime |-> PdfMime,      renders |-> TRUE ],
    [dir |-> "sub", name |-> "e.pdf",     mime |-> "text/plain", renders |-> FALSE],
    [dir |-> "",    name |-> "notes.txt", mime |-> PdfMime,      renders |-> TRUE ] }

\* (variant) the name as it is, in whatever case
LowerSkipped(s) == s

\* str.lower() on the file names of the model
Lower(s) == IF s = "b.PDF" THEN "b.pdf" ELSE s

\* str.endswith('.pdf') on the (lowered) file names of the model
EndsWithPdf(s) == s \in {"a.pdf", "b.pdf", "c.pdf", "d.pdf", "e.pdf"}

\* the path of an entry below the extraction directory: os.path.join
PathOf(e) == <<e.dir, e.name>>

\* (variant) os.path.dirname in place of os.path.basename
Dirname(p) == p[1]

\* os.path.basename
Basename(p) == p[2]

Paths == { PathOf(e) : e \in Entries }

SeqsUpTo(S, n) == UNION { [1..k -> S] : k \in 0..n }

\* The archives over the entries E that can be submitted.  An unreadable
\* archive makes zipfile.ZipFile raise BadZipFile.  Entry names within one
\* archive are distinct, as they are in an archive made from a directory.
ArchivesOver(E) ==
  { [readable |-> TRUE, entries |-> es] :
      es \in { s \in SeqsUpTo(E, MaxEntries) :
                 \A i, j \in DOMAIN s : i # j => PathOf(s[i]) # PathOf(s[j]) } }
  \cup { [readable |-> FALSE, entries |-> <<>>] }

\* The entries of the archives submitted when batches run side by side
ConcurrentEntries ==
  { e \in Entries : e.name \in {"a.pdf", "c.pdf", "d.pdf"} }

\* ------------------------------------------------- the external response
\* The nine fields _parse_response requires, in the order it checks them.
required_fields ==
  << "full_name", "email", "education", "experience", "skills",
     "required_skills_match", "preferred_skills_match", "recommendation",
     "justification" >>

Range(f) == { f[x] : x \in DOMAIN f }

RequiredSet == Range(required_fields)

\* What json.loads yields for a response's content.  `body` is the dict of
\* an object (key -> value), the elements of an array (a sequence) or the
\* words of a string (a sequence); a number and null have no body.  The
\* kinds "not_json" and "no_choices" are a content json.loads rejects and a
\* response whose choices list is empty.
Json(kind, body) == [kind |-> kind, body |-> body]

\* an object with the keys K: every value has the type tag v, except that
\* of an extra "filename" key, which is a file name
ObjectOf(K, v) ==
  Json("object", [k \in K |-> IF k = "filename" THEN "other.pdf" ELSE v])

RECURSIVE SeqOfSet(_)
SeqOfSet(S) ==
  IF S = {} THEN <<>>
  ELSE LET x == CHOOSE y \in S : TRUE IN <<x>> \o SeqOfSet(S \ {x})

\* Python's `field in result`, by the type json.loads returned: a key of a
\* dict, an element of a list, a substring of a str; TypeError otherwise.
InRaises(result)  == result.kind \in {"number", "null"}
In(field, result) ==
  CASE result.kind = "object" -> field \in DOMAIN result.body
    [] result.kind = "array"  -> field \in Range(result.body)
    [] result.kind = "string" -> field \in Range(result.body)
    [] OTHER -> FALSE

\* the first required field, in list order, that is not `in` the result
RECURSIVE FirstMissing(_, _)
FirstMissing(result, i) ==
  IF i > Len(required_fields) THEN None
  ELSE IF ~In(required_fields[i], result) THEN <<required_fields[i]>>
  ELSE FirstMissing(result, i + 1)

Returned(v) == [raised |-> FALSE, value |-> v, error |-> None]
Raised(e)   == [raised |-> TRUE, value |-> None, error |-> e]

ParseError(inner) == <<"Failed to parse API response">> \o inner

\* GeminiAIClient._parse_response
_parse_response(response) ==
  IF response.kind = "no_choices" THEN Raised(ParseError(<<"IndexError">>))
  ELSE IF response.kind = "not_json" THEN Raised(ParseError(<<"JSONDecodeError">>))
  ELSE IF InRaises(response) THEN Raised(ParseError(<<"TypeError">>))
  ELSE LET missing == FirstMissing(response, 1) IN
       IF missing # None
       THEN Raised(ParseError(<<"Missing required field">> \o missing))
       ELSE Returned(response)

\* The responses the external service gives in the pipeline: a well-formed
\* nine-field object, one that also carries a "filename" key, one that lacks
\* "email", and an array that lists the nine field names.
GoodObj    == ObjectOf(RequiredSet, "str")
ExtraObj   == ObjectOf(RequiredSet \cup {"filename"}, "str")
MissingObj == ObjectOf(RequiredSet \ {"email"}, "str")
NamesArray == Json("array", required_fields)
Responses  == {GoodObj, ExtraObj, MissingObj, NamesArray}

\* the responses given when batches run side by side
ConcurrentResponses == {GoodObj, MissingObj}

\* Every content _parse_response is tried on: objects over every subset of
\* the nine fields (with or without an extra key, values of either type),
\* arrays and strings over every subset, a number, null, a content that is
\* not JSON and a response without choices.
ParseInputs ==
  { ObjectOf(K \cup X, v) :
      K \in SUBSET RequiredSet, X \in {{}, {"filename"}}, v \in {"str", "num"} }
  \cup { Json(k, SeqOfSet(K)) : k \in {"array", "string"}, K \in SUBSET RequiredSet }
  \cup { Json(k, <<>>) : k \in {"number", "null", "not_json", "no_choices"} }

\* ------------------------------------------------------------ the state
VARIABLES
  tasks,            \* main.tasks: the registry, a dict task_id -> entry
  zip_content,      \* the archive each background task was handed
  pc,               \* where each process_cvs_task coroutine stands
  results,          \* CVScreener.results of each batch
  processed_count,  \* CVScreener.processed_count
  total_count,      \* CVScreener.total_count
  current_status,   \* CVScreener.current_status
  pdf_files,        \* process_zip's list of validated paths
  idx,              \* position of `for pdf_path in pdf_files` (1-based)
  attempt,          \* `attempt` of _call_gemini_api's loop
  call,             \* the current _call_gemini_api: attempts' outcomes, sleeps, result
  exc,              \* the exception propagating out of process_zip, or None
  ret,              \* the path process_zip is returning, or None
  fs,               \* the shared extraction directory "temp"
  results_dir,      \* the files under "results", by the second in their name
  clock,            \* the last second datetime.now() returned
  running,          \* <<t>>: background task t holds the event loop; None: nobody
  resp,             \* the response of the request handled last, or None
  hist,             \* per batch: which steps raised (history, for the claims)
  doc_raised,       \* per batch: <<k, step>> for each document k whose step raised
  parse_in,         \* the response _parse_response is applied to
  parse_done,       \* whether it has been applied
  parse_out         \* what it returned or raised

screenerVars == <<results, processed_count, total_count, current_status>>
loopVars     == <<pdf_files, idx>>
callVars     == <<attempt, call>>
exitVars     == <<exc, ret>>
parseVars    == <<parse_in, parse_done, parse_out>>
histVars     == <<hist, doc_raised>>
vars == <<tasks, zip_content, pc, results, processed_count, total_count,
          current_status, pdf_files, idx, attempt, call, exc, ret, fs,
          results_dir, clock, running, resp, hist, doc_raised, parse_in,
          parse_done, parse_out>>

\* ------------------------------------------------------ the file system
\* A file of "temp" holds the bytes of an entry: <<task that extracted it,
\* the entry>>; None where there is no file.
NoCall == [outcomes |-> <<>>, waits |-> <<>>, finished |-> FALSE,
           result |-> Raised(None)]

EmptyFs == [exists |-> FALSE, subdirs |-> {}, files |-> [p \in Paths |-> None]]

\* os.makedirs(temp_dir, exist_ok=True)
MakeTemp(f) == [f EXCEPT !.exists = TRUE]

\* zf.extract(file, extract_path): creates the entry's directory, writes
\* (or overwrites) the file
ZipExtract(f, t, e) ==
  [f EXCEPT !.files[PathOf(e)] = <<t, e>>,
            !.subdirs = IF e.dir = "" THEN @ ELSE @ \cup {e.dir}]

\* os.remove of a file
Remove(f, p) == [f EXCEPT !.files[p] = None]

\* (variant) validation by existence alone, without sniffing the content
_is_valid_pdf_NoSniff(f, p) == f.files[p] # None

\* CVScreener._is_valid_pdf: libmagic on the file at the path
_is_valid_pdf(f, p) ==
  IF f.files[p] = None THEN FALSE ELSE f.files[p][2].mime = PdfMime

\* CVScreener._extract_zip, from entry i on: the file system it leaves and
\* the paths it returns
RECURSIVE ExtractFrom(_, _, _, _, _)
ExtractFrom(t, entries, i, f, acc) ==
  IF i > Len(entries) THEN [fs |-> f, pdf_files |-> acc]
  ELSE LET e == entries[i] IN
    IF ~EndsWithPdf(Lower(e.name)) THEN ExtractFrom(t, entries, i + 1, f, acc)
    ELSE LET f1 == ZipExtract(f, t, e)
             p  == PathOf(e)
         IN IF _is_valid_pdf(f1, p)
            THEN ExtractFrom(t, entries, i + 1, f1, Append(acc, p))
            ELSE ExtractFrom(t, entries, i + 1, Remove(f1, p), acc)

_extract_zip(t, archive, f) == ExtractFrom(t, archive.entries, 1, f, <<>>)

\* CVScreener._pdf_to_images: fitz.open and the page loop; any exception
\* becomes ValueError("Failed to convert PDF to images: ...")
_pdf_to_images(f, p) ==
  IF f.files[p] = None
  THEN Raised(<<"Failed to convert PDF to images", "no such file">>)
  ELSE IF ~f.files[p][2].renders
  THEN Raised(<<"Failed to convert PDF to images", "cannot open document">>)
  ELSE Returned(f.files[p])

\* os.listdir(temp_dir): the files at the top of "temp" and its directories
TopFiles(f) == { p \in Paths : p[1] = "" /\ f.files[p] # None }

\* The finally block of process_zip.  os.remove raises on a directory, so
\* with a directory in "temp" the loop removes the files listdir yields
\* before it (removed, any subset) and then raises; otherwise it removes
\* every file and the directory.
CleanupRaises(f) == f.exists /\ f.subdirs # {}
CleanupFs(f, removed) ==
  IF ~f.exists THEN f
  ELSE IF f.subdirs # {}
  THEN [f EXCEPT !.files = [p \in Paths |-> IF p \in removed THEN None ELSE @[p]]]
  ELSE EmptyFs

\* ------------------------------------------------------------ progress
\* (variant) a percentage of 100 for a batch without documents
get_progress_FullWhenEmpty(t) ==
  [processed |-> processed_count[t],
   total |-> total_count[t],
   status |-> current_status[t],
   percentage |-> IF total_count[t] > 0
                  THEN (processed_count[t] * 100) \div total_count[t] ELSE 100]

\* CVScreener.get_progress (percentage: the float's integer part)
get_progress(t) ==
  [processed |-> processed_count[t],
   total |-> total_count[t],
   status |-> current_status[t],
   percentage |-> IF total_count[t] > 0
                  THEN (processed_count[t] * 100) \div total_count[t] ELSE 0]

InitialTask ==
  [status |-> "PROCESSING",
   progress |-> [processed |-> 0, total |-> 0, status |-> <<"Initializing">>,
                 percentage |-> 0],
   result_path |-> None,
   error |-> None]

\* the dict entry appended for a document that raised
FailureEntry(p, error) == [filename |-> Basename(p), error |-> error]

\* {"filename": basename, **analysis}: the keys of analysis come last
SuccessEntry(p, analysis) == analysis.body @@ ("filename" :> Basename(p))

\* the exception of failed attempt i of the external call
ApiError(i) == <<"ApiError of attempt", i>>

\* (variant) a backoff that does not grow
BackoffDelayConstant(i) == retry_delay

\* asyncio.sleep's argument after failed attempt i
BackoffDelay(i) == retry_delay * Pow2(i)

\* (variant) the re-raise one attempt later
IsLastAttemptLate(i) == i = max_retries

\* `if attempt == max_retries - 1: raise`
IsLastAttempt(i) == i = max_retries - 1

\* str(e) of the exceptions that end a batch
BadZipFile        == <<"File is not a zip file">>
ReportError       == <<"Failed to generate Excel report">>
IsADirectoryError == <<"Is a directory">>

\* f"results/cv_analysis_{timestamp}.xlsx"
OutputPath(now) == <<"results/cv_analysis_", now, ".xlsx">>

\* ------------------------------------------------------------- initially
PipelineInit ==
  /\ tasks = <<>>
  /\ zip_content = [t \in TaskIds |-> [readable |-> TRUE, entries |-> <<>>]]
  /\ pc = [t \in TaskIds |-> "idle"]
  /\ results = [t \in TaskIds |-> <<>>]
  /\ processed_count = [t \in TaskIds |-> 0]
  /\ total_count = [t \in TaskIds |-> 0]
  /\ current_status = [t \in TaskIds |-> <<"Initializing">>]
  /\ pdf_files = [t \in TaskIds |-> <<>>]
  /\ idx = [t \in TaskIds |-> 1]
  /\ attempt = [t \in TaskIds |-> 0]
  /\ call = [t \in TaskIds |-> NoCall]
  /\ exc = [t \in TaskIds |-> None]
  /\ ret = [t \in TaskIds |-> None]
  /\ fs = EmptyFs
  /\ results_dir = [n \in 0..MaxClock |-> None]
  /\ clock = 0
  /\ running = None
  /\ resp = None
  /\ hist = [t \in TaskIds |-> {}]
  /\ doc_raised = [t \in TaskIds |-> {}]

Init ==
  /\ PipelineInit
  /\ parse_in = Json("null", <<>>)
  /\ parse_done = FALSE
  /\ parse_out = Raised(None)

\* --------------------------------------------------- the request layer
\* (variant) an id generator that can repeat an id
FreshIdsRepeating == TaskIds

\* uuid.uuid4(): an id no task has.  Ids are interchangeable, so the model
\* takes the least unused one.
FreshIds ==
  { t \in TaskIds \ DOMAIN tasks : \A u \in TaskIds \ DOMAIN tasks : t <= u }

\* POST /screen-cvs.  A file name that does not end in .zip raises the 400
\* HTTPException inside the try, which the except turns into a 500.
screen_cvs(t, is_zip, archive) ==
  /\ running = None
  /\ t \in FreshIds
  /\ IF ~is_zip
     THEN /\ resp' = <<"screen_cvs", 500>>
          /\ UNCHANGED <<tasks, zip_content, pc>>
     ELSE /\ tasks' = [u \in DOMAIN tasks \cup {t} |->
                        IF u = t THEN InitialTask ELSE tasks[u]]
          /\ zip_content' = [zip_content EXCEPT ![t] = archive]
          /\ pc' = [pc EXCEPT ![t] = "queued"]
          /\ resp' = <<"screen_cvs", 200, t>>
  /\ UNCHANGED <<screenerVars, loopVars, callVars, exitVars, fs, results_dir,
                 clock, running, histVars, parseVars>>

\* GET /task-status/{task_id}
get_task_status(t) ==
  /\ running = None
  /\ resp' = IF t \notin DOMAIN tasks
             THEN <<"get_task_status", 404, t>>
             ELSE <<"get_task_status", 200, t, tasks[t]>>
  /\ UNCHANGED <<tasks, zip_content, pc, screenerVars, loopVars, callVars,
                 exitVars, fs, results_dir, clock, running, histVars, parseVars>>

\* os.path.exists(task["result_path"]): a file of that name is under
\* "results"
os_path_exists(dir, path) == dir[path[2]] # None

\* (variant) the check of the path alone, without looking at the disk
ArtifactMissingNoDiskCheck(entry, dir) == entry.result_path = None

\* `not task["result_path"] or not os.path.exists(task["result_path"])`
ArtifactMissing(entry, dir) ==
  entry.result_path = None \/ ~os_path_exists(dir, entry.result_path)

\* GET /download-result/{task_id}
download_result(t) ==
  /\ running = None
  /\ resp' = IF t \notin DOMAIN tasks
             THEN <<"download_result", 404, t, <<"Task not found">>>>
             ELSE IF tasks[t].status # "COMPLETED"
             THEN <<"download_result", 400, t, <<"Task not completed">>>>
             ELSE IF ArtifactMissing(tasks[t], results_dir)
             THEN <<"download_result", 404, t, <<"Result file not found">>>>
             ELSE <<"download_result", 200, t, tasks[t].result_path>>
  /\ UNCHANGED <<tasks, zip_content, pc, screenerVars, loopVars, callVars,
                 exitVars, fs, results_dir, clock, running, histVars, parseVars>>

\* The reports under "results" are on the server's disk, which
\* download_result reads with os.path.exists: a report can be deleted from
\* outside the program between two requests.
ReportDeleted(now) ==
  /\ running = None
  /\ results_dir[now] # None
  /\ results_dir' = [results_dir EXCEPT ![now] = None]
  /\ resp' = None
  /\ UNCHANGED <<tasks, zip_content, pc, screenerVars, loopVars, callVars,
                 exitVars, fs, clock, running, histVars, parseVars>>

\* ------------------------------------------------- the background task
\* process_cvs_task starts: CVScreener(role_data), then process_zip up to
\* os.makedirs
StartTask(t) ==
  /\ running = None
  /\ pc[t] = "queued"
  /\ running' = <<t>>
  /\ results' = [results EXCEPT ![t] = <<>>]
  /\ processed_count' = [processed_count EXCEPT ![t] = 0]
  /\ total_count' = [total_count EXCEPT ![t] = 0]
  /\ current_status' = [current_status EXCEPT ![t] = <<"Initializing">>]
  /\ fs' = MakeTemp(fs)
  /\ pc' = [pc EXCEPT ![t] = "extract"]
  /\ resp' = None
  /\ UNCHANGED <<tasks, zip_content, loopVars, callVars, exitVars, results_dir,
                 clock, histVars, parseVars>>

\* (variant) a total that leaves the last document out
TotalCountButLast(files) == IF files = <<>> THEN 0 ELSE Len(files) - 1

\* self.total_count = len(pdf_files)
TotalCount(files) == Len(files)

\* pdf_files = self._extract_zip(...); self.total_count = len(pdf_files).
\* zipfile.ZipFile raises on an unreadable archive.
ExtractZip(t) ==
  /\ running = <<t>>
  /\ pc[t] = "extract"
  /\ IF ~zip_content[t].readable
     THEN /\ exc' = [exc EXCEPT ![t] = BadZipFile]
          /\ hist' = [hist EXCEPT ![t] = @ \cup {"extract_raised"}]
          /\ pc' = [pc EXCEPT ![t] = "cleanup"]
          /\ UNCHANGED <<fs, pdf_files, idx, total_count>>
     ELSE LET x == _extract_zip(t, zip_content[t], fs) IN
          /\ fs' = x.fs
          /\ pdf_files' = [pdf_files EXCEPT ![t] = x.pdf_files]
          /\ idx' = [idx EXCEPT ![t] = 1]
          /\ total_count' = [total_count EXCEPT ![t] = TotalCount(x.pdf_files)]
          /\ pc' = [pc EXCEPT ![t] = "loop"]
          /\ UNCHANGED <<exc, hist>>
  /\ UNCHANGED <<tasks, zip_content, results, processed_count, current_status,
                 callVars, ret, results_dir, clock, running, resp, doc_raised,
                 parseVars>>

\* (variant) a count that grows by two per document
CountedTwice(n) == n + 2

\* `finally: self.processed_count += 1`
Counted(n) == n + 1

\* One turn of `for pdf_path in pdf_files` up to the external call:
\* _process_single_cv sets the status text and renders the document.  A
\* render error is recorded by the except clause and counted by the
\* finally clause; otherwise analyze_cv issues attempt 0 and awaits it.
ProcessNext(t) ==
  /\ running = <<t>>
  /\ pc[t] = "loop"
  /\ idx[t] <= Len(pdf_files[t])
  /\ LET p == pdf_files[t][idx[t]]
         images == _pdf_to_images(fs, p)
     IN /\ current_status' = [current_status EXCEPT ![t] = <<"Processing", Basename(p)>>]
        /\ IF images.raised
           THEN /\ results' = [results EXCEPT ![t] = Append(@, FailureEntry(p, images.error))]
                /\ processed_count' = [processed_count EXCEPT ![t] = Counted(@)]
                /\ idx' = [idx EXCEPT ![t] = @ + 1]
                /\ hist' = [hist EXCEPT ![t] = @ \cup {"render_raised"}]
                /\ doc_raised' = [doc_raised EXCEPT ![t] = @ \cup {<<idx[t], "render">>}]
                /\ UNCHANGED <<pc, attempt, call, running>>
           ELSE /\ attempt' = [attempt EXCEPT ![t] = 0]
                /\ call' = [call EXCEPT ![t] = NoCall]
                /\ pc' = [pc EXCEPT ![t] = "call"]
                /\ running' = None
                /\ UNCHANGED <<results, processed_count, idx, histVars>>
  /\ UNCHANGED <<tasks, zip_content, total_count, pdf_files, exitVars, fs,
                 results_dir, clock, resp, parseVars>>

\* The awaited chat.completions.create of the current attempt ends: with a
\* response (returned at once) or with an exception, which is re-raised on
\* the last attempt and followed by the backoff sleep otherwise.
ApiCallEnds(t, outcome) ==
  /\ running = None
  /\ pc[t] = "call"
  /\ resp' = None
  /\ IF outcome = <<"raise">>
     THEN IF IsLastAttempt(attempt[t])
          THEN /\ call' = [call EXCEPT ![t].outcomes = Append(@, outcome),
                                       ![t].finished = TRUE,
                                       ![t].result = Raised(ApiError(attempt[t]))]
               /\ pc' = [pc EXCEPT ![t] = "analyzed"]
               /\ running' = <<t>>
          ELSE /\ call' = [call EXCEPT ![t].outcomes = Append(@, outcome),
                                       ![t].waits = Append(@, BackoffDelay(attempt[t]))]
               /\ pc' = [pc EXCEPT ![t] = "sleep"]
               /\ UNCHANGED running
     ELSE /\ call' = [call EXCEPT ![t].outcomes = Append(@, outcome),
                                  ![t].finished = TRUE,
                                  ![t].result = Returned(outcome[2])]
          /\ pc' = [pc EXCEPT ![t] = "analyzed"]
          /\ running' = <<t>>
  /\ UNCHANGED <<tasks, zip_content, screenerVars, loopVars, attempt, exitVars,
                 fs, results_dir, clock, histVars, parseVars>>

\* asyncio.sleep returns: the for loop takes the next attempt and awaits it
SleepEnds(t) ==
  /\ running = None
  /\ pc[t] = "sleep"
  /\ attempt' = [attempt EXCEPT ![t] = @ + 1]
  /\ pc' = [pc EXCEPT ![t] = "call"]
  /\ resp' = None
  /\ UNCHANGED <<tasks, zip_content, screenerVars, loopVars, call, exitVars,
                 fs, results_dir, clock, running, histVars, parseVars>>

\* GeminiAIClient.analyze_cv after _call_gemini_api has finished: it parses
\* a response and re-raises any exception
analyze_cv(result) ==
  IF result.raised THEN Raised(result.error) ELSE _parse_response(result.value)

\* `**analysis` raises TypeError on a value that is no dict
StoreRaises(analysis) == analysis.kind # "object"

\* What the finished _call_gemini_api leads to for the document at path p:
\* _process_single_cv appends the success entry; process_zip's except
\* clause appends a failure entry for whatever was raised.
OutcomeEntry(p, result) ==
  LET analysis == analyze_cv(result) IN
  IF analysis.raised THEN FailureEntry(p, analysis.error)
  ELSE IF StoreRaises(analysis.value)
  THEN FailureEntry(p, <<"TypeError", "not a mapping">>)
  ELSE SuccessEntry(p, analysis.value)

IsFailure(entry) == "error" \in DOMAIN entry

\* the rest of the loop turn after the external call: the entry is
\* appended and `finally: self.processed_count += 1`
RecordOutcome(t) ==
  /\ running = <<t>>
  /\ pc[t] = "analyzed"
  /\ LET p == pdf_files[t][idx[t]]
         analysis == analyze_cv(call[t].result)
     IN /\ results' = [results EXCEPT ![t] = Append(@, OutcomeEntry(p, call[t].result))]
        /\ IF analysis.raised
           THEN /\ hist' = [hist EXCEPT ![t] = @ \cup {"analysis_raised"}]
                /\ doc_raised' = [doc_raised EXCEPT ![t] = @ \cup {<<idx[t], "analyze">>}]
           ELSE IF StoreRaises(analysis.value)
           THEN /\ hist' = [hist EXCEPT ![t] = @ \cup {"store_raised"}]
                /\ doc_raised' = [doc_raised EXCEPT ![t] = @ \cup {<<idx[t], "store">>}]
           ELSE UNCHANGED histVars
  /\ processed_count' = [processed_count EXCEPT ![t] = Counted(@)]
  /\ idx' = [idx EXCEPT ![t] = @ + 1]
  /\ call' = [call EXCEPT ![t] = NoCall]
  /\ attempt' = [attempt EXCEPT ![t] = 0]
  /\ pc' = [pc EXCEPT ![t] = "loop"]
  /\ UNCHANGED <<tasks, zip_content, total_count, current_status, pdf_files,
                 exitVars, fs, results_dir, clock, running, resp, parseVars>>

\* (variant) a metadata count of the successful entries only
TotalCVsSucceeded(entries) ==
  Cardinality({ i \in DOMAIN entries : "error" \notin DOMAIN entries[i] })

\* "Total CVs Processed": len(self.results)
TotalCVsProcessed(entries) == Len(entries)

\* _generate_excel_report after the loop: the path is named by the clock
\* second; writing it replaces any file of that name.  Any exception in it
\* becomes ValueError("Failed to generate Excel report: ...").
GenerateReport(t, now, ok) ==
  /\ running = <<t>>
  /\ pc[t] = "loop"
  /\ idx[t] > Len(pdf_files[t])
  /\ now >= clock
  /\ clock' = now
  /\ IF ok
     THEN /\ results_dir' = [results_dir EXCEPT ![now] =
                               <<t, TotalCVsProcessed(results[t])>>]
          /\ ret' = [ret EXCEPT ![t] = OutputPath(now)]
          /\ UNCHANGED <<exc, hist>>
     ELSE /\ exc' = [exc EXCEPT ![t] = ReportError]
          /\ hist' = [hist EXCEPT ![t] = @ \cup {"report_raised"}]
          /\ UNCHANGED <<results_dir, ret>>
  /\ pc' = [pc EXCEPT ![t] = "cleanup"]
  /\ UNCHANGED <<tasks, zip_content, screenerVars, loopVars, callVars, fs,
                 running, resp, doc_raised, parseVars>>

\* the finally block of process_zip; an exception raised in it replaces
\* the one in flight and the value being returned
Cleanup(t, removed) ==
  /\ running = <<t>>
  /\ pc[t] = "cleanup"
  /\ removed \subseteq TopFiles(fs)
  /\ CleanupRaises(fs) \/ removed = TopFiles(fs)
  /\ fs' = CleanupFs(fs, removed)
  /\ IF CleanupRaises(fs)
     THEN /\ exc' = [exc EXCEPT ![t] = IsADirectoryError]
          /\ ret' = [ret EXCEPT ![t] = None]
          /\ hist' = [hist EXCEPT ![t] = @ \cup {"cleanup_raised"}]
     ELSE UNCHANGED <<exc, ret, hist>>
  /\ pc' = [pc EXCEPT ![t] = "finish"]
  /\ UNCHANGED <<tasks, zip_content, screenerVars, loopVars, callVars,
                 results_dir, clock, running, resp, doc_raised, parseVars>>

\* the registry update that ends process_cvs_task: COMPLETED with the
\* progress and the path, or FAILED with str(e)
CompletedUpdate(entry, progress, path) ==
  [entry EXCEPT !.status = "COMPLETED", !.progress = progress, !.result_path = path]

\* (variant) a FAILED update that also rewrites the progress text
FailedUpdateWithProgress(entry, error) ==
  [entry EXCEPT !.status = "FAILED", !.error = error,
                !.progress.status = <<"Failed">>]

FailedUpdate(entry, error) ==
  [entry EXCEPT !.status = "FAILED", !.error = error]

\* (variant) a handler that catches ValueError alone
ExceptValueError(e) == e = ReportError

\* `except Exception as e` of process_cvs_task: every exception process_zip
\* raises (BadZipFile, ValueError, OSError) is an Exception
ExceptException(e) == TRUE

\* When process_cvs_task returns, its locals and its CVScreener are
\* unreachable: the model puts them back to their initial values.
Finish(t) ==
  /\ running = <<t>>
  /\ pc[t] = "finish"
  /\ tasks' = [tasks EXCEPT ![t] =
                 IF exc[t] = None
                 THEN CompletedUpdate(@, get_progress(t), ret[t])
                 ELSE IF ExceptException(exc[t])
                 THEN FailedUpdate(@, exc[t])
                 ELSE @]
  /\ pc' = [pc EXCEPT ![t] = "done"]
  /\ running' = None
  /\ zip_content' = [zip_content EXCEPT ![t] = [readable |-> TRUE, entries |-> <<>>]]
  /\ results' = [results EXCEPT ![t] = <<>>]
  /\ processed_count' = [processed_count EXCEPT ![t] = 0]
  /\ total_count' = [total_count EXCEPT ![t] = 0]
  /\ current_status' = [current_status EXCEPT ![t] = <<"Initializing">>]
  /\ pdf_files' = [pdf_files EXCEPT ![t] = <<>>]
  /\ idx' = [idx EXCEPT ![t] = 1]
  /\ exc' = [exc EXCEPT ![t] = None]
  /\ ret' = [ret EXCEPT ![t] = None]
  /\ doc_raised' = [doc_raised EXCEPT ![t] = {}]
  /\ UNCHANGED <<callVars, fs, results_dir, clock, resp, hist, parseVars>>

\* _parse_response is applied to parse_in
Parse ==
  /\ ~parse_done
  /\ parse_done' = TRUE
  /\ parse_out' = _parse_response(parse_in)
  /\ UNCHANGED <<tasks, zip_content, pc, screenerVars, loopVars, callVars,
                 exitVars, fs, results_dir, clock, running, resp, histVars,
                 parse_in>>

OutcomesOver(R) == {<<"raise">>} \cup { <<"response", r>> : r \in R }

Next ==
  \/ \E t \in TaskIds, is_zip \in BOOLEAN, a \in ArchivesOver(ConcurrentEntries) :
        screen_cvs(t, is_zip, a)
  \/ \E t \in TaskIds : get_task_status(t)
  \/ \E t \in TaskIds : download_result(t)
  \/ \E now \in 0..MaxClock : ReportDeleted(now)
  \/ \E t \in TaskIds : StartTask(t)
  \/ \E t \in TaskIds : ExtractZip(t)
  \/ \E t \in TaskIds : ProcessNext(t)
  \/ \E t \in TaskIds, o \in OutcomesOver(ConcurrentResponses) : ApiCallEnds(t, o)
  \/ \E t \in TaskIds : SleepEnds(t)
  \/ \E t \in TaskIds : RecordOutcome(t)
  \/ \E t \in TaskIds, now \in 0..MaxClock, ok \in BOOLEAN : GenerateReport(t, now, ok)
  \/ \E t \in TaskIds, removed \in SUBSET Paths : Cleanup(t, removed)
  \/ \E t \in TaskIds : Finish(t)

\* Up to MaxTasks batches, submitted at any time and running side by side
Spec == Init /\ [][Next]_vars

\* The process when a single batch is ever submitted, over every archive of
\* Entries and every response of Responses.
NextSingle ==
  \/ \E t \in TaskIds, is_zip \in BOOLEAN, a \in ArchivesOver(Entries) :
        tasks = <<>> /\ screen_cvs(t, is_zip, a)
  \/ \E t \in TaskIds : get_task_status(t)
  \/ \E t \in TaskIds : download_result(t)
  \/ \E now \in 0..MaxClock : ReportDeleted(now)
  \/ \E t \in TaskIds : StartTask(t)
  \/ \E t \in TaskIds : ExtractZip(t)
  \/ \E t \in TaskIds : ProcessNext(t)
  \/ \E t \in TaskIds, o \in OutcomesOver(Responses) : ApiCallEnds(t, o)
  \/ \E t \in TaskIds : SleepEnds(t)
  \/ \E t \in TaskIds : RecordOutcome(t)
  \/ \E t \in TaskIds, now \in 0..MaxClock, ok \in BOOLEAN : GenerateReport(t, now, ok)
  \/ \E t \in TaskIds, removed \in SUBSET Paths : Cleanup(t, removed)
  \/ \E t \in TaskIds : Finish(t)

SpecSingle == Init /\ [][NextSingle]_vars

\* The entries and responses of the batches whose termination is checked
LiveEntries   == { e \in Entries : e.name \in {"a.pdf", "d.pdf"} /\ e.mime = PdfMime }
LiveResponses == {GoodObj}

\* The steps of the background unit of batch t.  The event loop runs every
\* ready coroutine in turn, and an awaited external call or sleep that has
\* ended makes its coroutine ready.
Background(t) ==
  \/ StartTask(t)
  \/ ExtractZip(t)
  \/ ProcessNext(t)
  \/ \E o \in OutcomesOver(LiveResponses) : ApiCallEnds(t, o)
  \/ SleepEnds(t)
  \/ RecordOutcome(t)
  \/ \E now \in 0..MaxClock, ok \in BOOLEAN : GenerateReport(t, now, ok)
  \/ \E removed \in SUBSET Paths : Cleanup(t, removed)
  \/ Finish(t)

NextLive ==
  \/ \E t \in TaskIds, is_zip \in BOOLEAN, a \in ArchivesOver(LiveEntries) :
        screen_cvs(t, is_zip, a)
  \/ \E t \in TaskIds : get_task_status(t)
  \/ \E t \in TaskIds : download_result(t)
  \/ \E now \in 0..MaxClock : ReportDeleted(now)
  \/ \E t \in TaskIds : Background(t)

\* Batches side by side, with the background units scheduled fairly and
\* every external call and sleep ending; nothing is assumed of the request
\* layer.
SpecLive ==
  Init /\ [][NextLive]_vars /\ \A t \in TaskIds : WF_vars(Background(t))

\* _parse_response on every content of ParseInputs
InitParse ==
  /\ PipelineInit
  /\ parse_in \in ParseInputs
  /\ parse_done = FALSE
  /\ parse_out = Raised(None)

NextParse == Parse

SpecParse == InitParse /\ [][NextParse]_vars

\* =============================================================== claims
Terminal == {"COMPLETED", "FAILED"}

\* process_cvs_task of batch t makes its registry update in this step
Finishes(t) == pc[t] = "finish" /\ pc'[t] = "done"

\* the entry of t's archive that was extracted to the path p
EntryAt(t, p) ==
  CHOOSE e \in Range(zip_content[t].entries) : <<e.dir, e.name>> = p

\* the number of entries of an archive with a .pdf name (in any case) and
\* PDF content
NumValidated(archive) ==
  Cardinality({ i \in DOMAIN archive.entries :
                  /\ archive.entries[i].name \in {"a.pdf", "b.PDF", "c.pdf", "d.pdf", "e.pdf"}
                  /\ archive.entries[i].mime = PdfMime })

\* ---- C1 ----------------------------------------------------------------
\* C1: a registry entry is created with status PROCESSING; its status
\* changes only from PROCESSING, and only to COMPLETED or FAILED; a
\* COMPLETED or FAILED entry keeps its status in every later step of any
\* batch, and no entry is ever removed.
C1_StatusChangesOnce ==
  [][\A t \in TaskIds :
       /\ (t \notin DOMAIN tasks /\ t \in DOMAIN tasks')
             => tasks'[t].status = "PROCESSING"
       /\ t \in DOMAIN tasks =>
             /\ t \in DOMAIN tasks'
             /\ tasks'[t].status # tasks[t].status
                  => /\ tasks[t].status = "PROCESSING"
                     /\ tasks'[t].status \in Terminal]_vars

\* C1 witness: one task has ended COMPLETED and another FAILED
C1_Witness ==
  \E t, u \in DOMAIN tasks :
     tasks[t].status = "COMPLETED" /\ tasks[u].status = "FAILED"

\* ---- C2 ----------------------------------------------------------------
\* C2 as stated: when the render or the analysis of a validated document
\* raised, the task ends COMPLETED and the result list holds a failure
\* entry {filename, error} with the base name of that document.
C2_DocFailureNeverFails ==
  [][\A t \in TaskIds : Finishes(t) =>
       \A d \in doc_raised[t] : d[2] \in {"render", "analyze"} =>
          /\ tasks'[t].status = "COMPLETED"
          /\ DOMAIN results[t][d[1]] = {"filename", "error"}
          /\ results[t][d[1]].filename = EntryAt(t, pdf_files[t][d[1]]).name]_vars

\* C2 amended: when the render or the analysis of a validated document
\* raised, the result list that process_zip ends with holds, at that
\* document's position, a failure entry {filename, error} with the base
\* name of the document and the error's message; and the task ends
\* COMPLETED unless report generation or the cleanup step raised for the
\* batch, in which case it ends FAILED.
C2_DocFailureRecorded ==
  [][\A t \in TaskIds : Finishes(t) =>
       \A d \in doc_raised[t] : d[2] \in {"render", "analyze"} =>
          /\ d[1] \in 1..Len(results[t])
          /\ DOMAIN results[t][d[1]] = {"filename", "error"}
          /\ results[t][d[1]].filename = EntryAt(t, pdf_files[t][d[1]]).name
          /\ results[t][d[1]].error # None
          /\ tasks'[t].status \in Terminal
          /\ tasks'[t].status = "COMPLETED"
               <=> hist[t] \cap {"report_raised", "cleanup_raised"} = {}]_vars

\* C2 witness: a task ended COMPLETED although one of its documents failed
\* to render and another failed in analysis
C2_Witness ==
  \E t \in DOMAIN tasks :
     /\ tasks[t].status = "COMPLETED"
     /\ {"render_raised", "analysis_raised"} \subseteq hist[t]

\* ---- C3 ----------------------------------------------------------------
\* C3: the progress get_task_status returns for a task that is PROCESSING
\* and suspended in its external call or backoff shows the orchestrator's
\* counters: processed = the documents completed so far, total = the
\* number of validated documents.
C3_ProgressFollows ==
  (/\ Len(resp) = 4
   /\ resp[1] = "get_task_status"
   /\ resp[4].status = "PROCESSING"
   /\ pc[resp[3]] \in {"call", "sleep"})
  => /\ resp[4].progress.processed = processed_count[resp[3]]
     /\ resp[4].progress.total = total_count[resp[3]]

\* ---- C4 ----------------------------------------------------------------
\* C4: batches share no files.  While a batch is in its document loop,
\* every document it has yet to render is in the extraction directory as
\* that batch extracted it; and a document's render fails only if its own
\* content does not render, as when the batch runs alone.
RenderFailed(entry) ==
  /\ "error" \in DOMAIN entry
  /\ entry.error[1] = "Failed to convert PDF to images"

C4_BatchesIsolated ==
  \A t \in TaskIds :
     /\ pc[t] \in {"loop", "call", "sleep", "analyzed"} =>
          \A k \in (IF pc[t] = "loop" THEN idx[t] ELSE idx[t] + 1)..Len(pdf_files[t]) :
             /\ fs.files[pdf_files[t][k]] # None
             /\ fs.files[pdf_files[t][k]][1] = t
     /\ \A k \in 1..Len(results[t]) :
          RenderFailed(results[t][k]) => ~EntryAt(t, pdf_files[t][k]).renders

\* ---- C5 ----------------------------------------------------------------
\* C5: a task that has ended is FAILED exactly when archive extraction or
\* report generation raised for its batch, and its error field then holds
\* that error's message; nothing else (a document's error, the cleanup
\* step) makes it FAILED.
C5_FailedOnlyOnFatal ==
  \A t \in DOMAIN tasks : tasks[t].status \in Terminal =>
     /\ tasks[t].status = "FAILED"
          <=> hist[t] \cap {"extract_raised", "report_raised"} # {}
     /\ tasks[t].status = "FAILED" =>
          \/ "extract_raised" \in hist[t] /\ tasks[t].error = BadZipFile
          \/ "report_raised" \in hist[t] /\ tasks[t].error = ReportError

\* ---- C6 ----------------------------------------------------------------
\* C6: _call_gemini_api makes at most 3 attempts; every attempt before the
\* last one made has failed and was followed by a wait of 1 * 2^i (i the
\* 0-based attempt); it returns the response of the first attempt that
\* succeeds, with no wait after it; after three failures it raises the
\* third attempt's exception, having waited 1 and 2 and nothing more.
C6_RetryPolicy ==
  \A t \in TaskIds :
     LET c == call[t]
         n == Len(c.outcomes)
     IN /\ n <= 3
        /\ \A i \in 1..(n - 1) : c.outcomes[i] = <<"raise">>
        /\ \A i \in 1..Len(c.waits) : c.waits[i] = Pow2(i - 1)
        /\ ~c.finished => /\ \A i \in 1..n : c.outcomes[i] = <<"raise">>
                          /\ Len(c.waits) = n
                          /\ n < 3
        /\ c.finished =>
             /\ n >= 1
             /\ Len(c.waits) = n - 1
             /\ IF c.outcomes[n] = <<"raise">>
                THEN /\ n = 3
                     /\ c.waits = <<1, 2>>
                     /\ c.result.raised
                     /\ c.result.error = <<"ApiError of attempt", 2>>
                ELSE /\ ~c.result.raised
                     /\ c.result.value = c.outcomes[n][2]

\* C6 witness: two failures, then a response that is returned after waits
\* of 1 and 2
C6_Witness ==
  \E t \in TaskIds :
     /\ call[t].finished
     /\ ~call[t].result.raised
     /\ Len(call[t].outcomes) = 3
     /\ call[t].waits = <<1, 2>>

\* ---- C7 ----------------------------------------------------------------
\* C7: when a batch ends COMPLETED, the progress written to the registry
\* has processed = total, and total = the number of validated documents of
\* the submitted archive.
C7_CompletedCounts ==
  [][\A t \in TaskIds :
       (Finishes(t) /\ tasks'[t].status = "COMPLETED") =>
          /\ tasks'[t].progress.processed = tasks'[t].progress.total
          /\ tasks'[t].progress.total = NumValidated(zip_content[t])]_vars

\* C7 witness: a COMPLETED task whose batch had two validated documents
C7_Witness ==
  \E t \in DOMAIN tasks :
     /\ tasks[t].status = "COMPLETED"
     /\ tasks[t].progress.total = 2
     /\ tasks[t].progress.processed = 2

\* ---- C8 ----------------------------------------------------------------
\* C8: when process_zip has ended, on every exit path, the extraction
\* directory and every file extracted into it are gone and the cleanup
\* step has raised nothing.
C8_CleanupRemovesAll ==
  \A t \in TaskIds : pc[t] = "finish" =>
     /\ ~fs.exists
     /\ \A p \in Paths : fs.files[p] = None
     /\ "cleanup_raised" \notin hist[t]

\* ---- C9 ----------------------------------------------------------------
\* C9: any two batches that are COMPLETED have different result paths.
C9_UniqueResultPaths ==
  \A t, u \in DOMAIN tasks :
     (t # u /\ tasks[t].status = "COMPLETED" /\ tasks[u].status = "COMPLETED")
        => tasks[t].result_path # tasks[u].result_path

\* ---- C10 ---------------------------------------------------------------
\* C10: _parse_response raises its parse error when the content is not a
\* JSON object that has all nine required fields, and returns the parsed
\* object unchanged when it is one, whatever its values and extra fields.
HasAllNine(content) ==
  /\ content.kind = "object"
  /\ \A i \in DOMAIN required_fields : required_fields[i] \in DOMAIN content.body

C10_ParseContract ==
  parse_done =>
     IF HasAllNine(parse_in)
     THEN ~parse_out.raised /\ parse_out.value = parse_in
     ELSE parse_out.raised /\ parse_out.error[1] = "Failed to parse API response"

\* ---- C11 ---------------------------------------------------------------
\* C11: get_task_status answers 404 exactly when the id is not in the
\* registry (and the entry otherwise); download_result answers 404 for an
\* unknown id, 400 for a task that is not COMPLETED, 404 for a COMPLETED
\* task whose result_path is empty or whose file is not on disk, and the
\* artifact's path only in the remaining case; neither changes the
\* registry.
C11_RequestErrors ==
  [][(/\ resp' # resp
      /\ resp' # None
      /\ resp'[1] \in {"get_task_status", "download_result"})
     => LET code == resp'[2]
            t    == resp'[3]
        IN /\ tasks' = tasks
           /\ resp'[1] = "get_task_status" =>
                IF t \in DOMAIN tasks
                THEN code = 200 /\ resp'[4] = tasks[t]
                ELSE code = 404
           /\ resp'[1] = "download_result" =>
                IF t \notin DOMAIN tasks THEN code = 404
                ELSE IF tasks[t].status \in {"PROCESSING", "FAILED"} THEN code = 400
                ELSE IF tasks[t].result_path = None THEN code = 404
                ELSE IF results_dir[tasks[t].result_path[2]] = None THEN code = 404
                ELSE code = 200 /\ resp'[4] = tasks[t].result_path]_vars

\* C11 witness: download_result has answered 404 for a COMPLETED task
\* whose report is no longer on disk
C11_Witness ==
  /\ Len(resp) = 4
  /\ resp[1] = "download_result"
  /\ resp[2] = 404
  /\ resp[3] \in DOMAIN tasks
  /\ tasks[resp[3]].status = "COMPLETED"

\* ---- C12 ---------------------------------------------------------------
\* C12: in every state of a batch's CVScreener processed_count is at most
\* total_count, and once _extract_zip has returned total_count keeps its
\* value until process_cvs_task has read the progress and returned.
C12_ProcessedWithinTotal ==
  [][\A t \in TaskIds :
       /\ processed_count'[t] <= total_count'[t]
       /\ (/\ pc[t] \in {"loop", "call", "sleep", "analyzed", "cleanup", "finish"}
           /\ pc'[t] # "done")
          => total_count'[t] = total_count[t]]_vars

\* C12 witness: a batch of two documents has counted the first and awaits
\* the external call for the second
C12_Witness ==
  \E t \in TaskIds :
     /\ pc[t] = "call"
     /\ processed_count[t] = 1
     /\ total_count[t] = 2

\* ---- C13 ---------------------------------------------------------------
\* C13: the result list grows only by one entry per loop turn, appended in
\* the turn of the document at that position; and when process_zip
\* generates the report the list has exactly one entry per validated
\* document, in extraction order (entry i is a failure entry, named after
\* document i, exactly when a step of document i raised, and a success
\* entry otherwise), and the report's 'Total CVs Processed' equals
\* total_count.
C13_OneEntryPerDocument ==
  [][\A t \in TaskIds :
       /\ (results'[t] # results[t] /\ pc'[t] # "done") =>
             /\ Len(results[t]) = idx[t] - 1
             /\ idx'[t] = idx[t] + 1
             /\ Len(results'[t]) = Len(results[t]) + 1
             /\ SubSeq(results'[t], 1, Len(results[t])) = results[t]
       /\ (pc[t] = "loop" /\ pc'[t] = "cleanup") =>
             /\ Len(results[t]) = total_count[t]
             /\ total_count[t] = NumValidated(zip_content[t])
             /\ Len(pdf_files[t]) = total_count[t]
             /\ \A i \in 1..Len(results[t]) :
                   IF \E d \in doc_raised[t] : d[1] = i
                   THEN /\ DOMAIN results[t][i] = {"filename", "error"}
                        /\ results[t][i].filename = EntryAt(t, pdf_files[t][i]).name
                   ELSE /\ "error" \notin DOMAIN results[t][i]
                        /\ \A k \in DOMAIN required_fields :
                              required_fields[k] \in DOMAIN results[t][i]
             /\ ret'[t] # None =>
                   results_dir'[ret'[t][2]] = <<t, total_count[t]>>]_vars

\* C13 witness: the report has been generated for a batch of two documents
\* of which the first failed and the second succeeded
C13_Witness ==
  \E t \in TaskIds :
     /\ pc[t] = "cleanup"
     /\ ret[t] # None
     /\ Len(results[t]) = 2
     /\ "error" \in DOMAIN results[t][1]
     /\ "error" \notin DOMAIN results[t][2]

\* ---- C14 ---------------------------------------------------------------
\* C14: for a readable archive _extract_zip returns, in archive order, the
\* paths of exactly the entries that have a .pdf name (in any case) and PDF
\* content, and total_count is their number; it does not raise for the
\* other entries, and the result list never has more entries than the
\* archive has such documents.
IsDocument(e) ==
  /\ e.name \in {"a.pdf", "b.PDF", "c.pdf", "d.pdf", "e.pdf"}
  /\ e.mime = "application/pdf"

C14_ExtractSelects ==
  [][\A t \in TaskIds :
       /\ Len(results'[t]) <= Len(SelectSeq(zip_content'[t].entries, IsDocument))
       /\ (pc[t] = "extract" /\ pc'[t] # "extract" /\ zip_content[t].readable) =>
             LET docs == SelectSeq(zip_content[t].entries, IsDocument) IN
             /\ pc'[t] = "loop"
             /\ exc'[t] = None
             /\ "extract_raised" \notin hist'[t]
             /\ pdf_files'[t] = [i \in 1..Len(docs) |-> <<docs[i].dir, docs[i].name>>]
             /\ total_count'[t] = Len(docs)]_vars

\* C14 witness: of an archive of two .pdf-named entries, extraction kept
\* b.PDF and left the other out
C14_Witness ==
  \E t \in TaskIds :
     /\ pc[t] = "loop"
     /\ Len(zip_content[t].entries) = 2
     /\ zip_content[t].entries[1].mime = "text/plain"
     /\ pdf_files[t] = << <<"", "b.PDF">> >>

\* ---- C15 ---------------------------------------------------------------
\* C15: every task that is in the registry eventually has status COMPLETED
\* or FAILED, whatever requests are made meanwhile, when the background
\* units are scheduled fairly and every external call ends.
C15_EveryTaskEnds ==
  \A t \in TaskIds :
     (t \in DOMAIN tasks) ~> (t \in DOMAIN tasks /\ tasks[t].status \in Terminal)

\* C15 witness: a task has ended while the batch submitted after it is
\* still awaiting its external call
C15_Witness ==
  \E t, u \in DOMAIN tasks :
     /\ tasks[t].status \in {"COMPLETED", "FAILED"}
     /\ tasks[u].status = "PROCESSING"
     /\ pc[u] = "call"
     /\ t < u

\* ---- C16 ---------------------------------------------------------------
\* C16: a batch works on one document at a time.  While it is in the loop
\* the documents before the current one, and no others, have their entry
\* recorded and are counted in processed_count; an external call or
\* backoff of the batch belongs to the current document and the batch
\* does nothing else until that call has ended; and the render of a
\* document starts only once every document before it is recorded and
\* counted.
C16_OneDocumentAtATime ==
  [][\A t \in TaskIds :
       /\ pc'[t] \in {"loop", "call", "sleep", "analyzed"} =>
             /\ Len(results'[t]) = idx'[t] - 1
             /\ processed_count'[t] = idx'[t] - 1
       /\ pc'[t] \in {"call", "sleep", "analyzed"} =>
             idx'[t] \in 1..Len(pdf_files'[t])
       /\ pc[t] \in {"call", "sleep"} =>
             /\ pc'[t] \in {"call", "sleep", "analyzed"}
             /\ idx'[t] = idx[t]
             /\ results'[t] = results[t]
       /\ (current_status'[t] # current_status[t] /\ pc'[t] # "done") =>
             /\ pc[t] = "loop"
             /\ current_status'[t] =
                  <<"Processing", EntryAt(t, pdf_files[t][idx[t]]).name>>
             /\ Len(results[t]) = idx[t] - 1
             /\ processed_count[t] = idx[t] - 1]_vars

\* C16 witness: a batch is in the backoff of its second document's call
\* with the first document recorded
C16_Witness ==
  \E t \in TaskIds :
     /\ pc[t] = "sleep"
     /\ idx[t] = 2
     /\ Len(results[t]) = 1
     /\ processed_count[t] = 1

\* ---- C17 ---------------------------------------------------------------
\* a readable archive without a validated document, in a batch under way
EmptyBatch(t) ==
  /\ pc[t] \notin {"idle", "done"}
  /\ zip_content[t].readable
  /\ NumValidated(zip_content[t]) = 0

\* C17 as stated: a batch on a readable archive without validated
\* documents makes no external call and ends COMPLETED with total = 0,
\* processed = 0, percentage = 0 and an empty result list.
C17_EmptyBatchCompletes ==
  [][\A t \in TaskIds : EmptyBatch(t) =>
       /\ pc'[t] \notin {"call", "sleep", "analyzed"}
       /\ Finishes(t) =>
            /\ results[t] = <<>>
            /\ tasks'[t].status = "COMPLETED"
            /\ tasks'[t].progress.total = 0
            /\ tasks'[t].progress.processed = 0
            /\ tasks'[t].progress.percentage = 0]_vars

\* C17 amended: such a batch makes no external call and ends with an empty
\* result list and both counters 0; its task ends COMPLETED, with total =
\* 0, processed = 0 and percentage = 0, unless report generation or the
\* cleanup step raised for the batch, in which case it ends FAILED.
C17_EmptyBatchIsLegal ==
  [][\A t \in TaskIds : EmptyBatch(t) =>
       /\ pc'[t] \notin {"call", "sleep", "analyzed"}
       /\ Finishes(t) =>
            /\ results[t] = <<>>
            /\ total_count[t] = 0
            /\ processed_count[t] = 0
            /\ "extract_raised" \notin hist[t]
            /\ IF hist[t] \cap {"report_raised", "cleanup_raised"} = {}
               THEN /\ tasks'[t].status = "COMPLETED"
                    /\ tasks'[t].progress.total = 0
                    /\ tasks'[t].progress.processed = 0
                    /\ tasks'[t].progress.percentage = 0
               ELSE tasks'[t].status = "FAILED"]_vars

\* C17 witness: a task has ended COMPLETED with no document to process
C17_Witness ==
  \E t \in DOMAIN tasks :
     /\ tasks[t].status = "COMPLETED"
     /\ tasks[t].progress.total = 0
     /\ tasks[t].progress.percentage = 0
     /\ hist[t] = {}

\* ---- C18 ---------------------------------------------------------------
\* C18: every success entry of a batch's result list has, as its filename,
\* the base name of the document at its position, whatever the fields of
\* the response it was made from.
C18_SuccessKeepsFilename ==
  \A t \in TaskIds : \A i \in 1..Len(results[t]) :
     "error" \notin DOMAIN results[t][i] =>
        results[t][i].filename = EntryAt(t, pdf_files[t][i]).name

\* ---- C19 ---------------------------------------------------------------
\* C19: in every registry state a task has a result_path exactly when it
\* is COMPLETED and an error exactly when it is FAILED; and the update
\* that makes a task FAILED leaves its progress and result_path as they
\* were.
C19_FieldsFollowStatus ==
  [][\A t \in DOMAIN tasks' :
       /\ tasks'[t].result_path # None <=> tasks'[t].status = "COMPLETED"
       /\ tasks'[t].error # None <=> tasks'[t].status = "FAILED"
       /\ (/\ t \in DOMAIN tasks
           /\ tasks[t].status # "FAILED"
           /\ tasks'[t].status = "FAILED")
          => /\ tasks'[t].progress = tasks[t].progress
             /\ tasks'[t].result_path = tasks[t].result_path]_vars

\* C19 witness: a task has ended FAILED on a report error, with an error
\* message, no result path and the progress it was created with
C19_Witness ==
  \E t \in DOMAIN tasks :
     /\ tasks[t].status = "FAILED"
     /\ tasks[t].error = <<"Failed to generate Excel report">>
     /\ tasks[t].result_path = <<>>
     /\ tasks[t].progress.status = <<"Initializing">>

\* ---- C20 ---------------------------------------------------------------
\* C20: for every document at most 3 external calls are made; a call is
\* followed by a backoff and another call only if it raised, and a call
\* that returned a response is the document's last; when parsing that
\* response raises, the document's entry is a failure entry with the
\* parse error and the batch goes on to the next document.
C20_RetryOnlyOnCallFailure ==
  [][\A t \in TaskIds :
       LET n  == Len(call[t].outcomes)
           n1 == Len(call'[t].outcomes)
       IN /\ n1 <= 3
          /\ (pc[t] = "call" /\ pc'[t] # "call") => n1 = n + 1
          /\ (pc[t] = "call" /\ pc'[t] = "sleep") =>
                call'[t].outcomes[n1][1] = "raise"
          /\ (pc[t] = "call" /\ n1 = n + 1 /\ call'[t].outcomes[n1][1] = "response") =>
                pc'[t] = "analyzed"
          /\ (/\ pc[t] = "analyzed"
              /\ pc'[t] # "analyzed"
              /\ ~call[t].result.raised
              /\ <<idx[t], "analyze">> \in doc_raised'[t])
             => /\ pc'[t] = "loop"
                /\ idx'[t] = idx[t] + 1
                /\ call[t].outcomes[n][1] = "response"
                /\ \A i \in 1..(n - 1) : call[t].outcomes[i] = <<"raise">>
                /\ Len(results'[t]) = idx[t]
                /\ DOMAIN results'[t][idx[t]] = {"filename", "error"}
                /\ results'[t][idx[t]].error[1] = "Failed to parse API response"]_vars

\* C20 witness: the first document of a batch has been recorded with the
\* parse error of a response that lacks a required field
C20_Witness ==
  \E t \in TaskIds :
     /\ pc[t] = "loop"
     /\ Len(results[t]) >= 1
     /\ "error" \in DOMAIN results[t][1]
     /\ results[t][1].error = <<"Failed to parse API response",
                                "Missing required field", "email">>

====
